---- MODULE Spec2Model ----
(***************************************************************************)
(* Bounded TTL cache of src/cache.ts (createCache and the six operations   *)
(* it returns), modelled as a state machine over one cache instance.       *)
(*                                                                         *)
(* The store is a JavaScript Map: an insertion-ordered mapping.  It is     *)
(* modelled as a sequence of entries without duplicate keys; Map.set on a  *)
(* key that is present replaces the entry in place, Map.set on a key that  *)
(* is absent appends, Map.delete removes and keeps the order of the rest.  *)
(* now is the value of the latest Date.now() call; a later call returns    *)
(* the same or a greater value, also within one operation.                 *)
(*                                                                         *)
(* The second part is src/git-env.sh: the commands feature-start, promote  *)
(* and hotfix-sync run in one clone of the superproject and its two        *)
(* submodules against origin.  Each command is one step that yields the    *)
(* branches it leaves, also when set -e or die ends it half-way.  What git *)
(* itself does is written from git's documented behaviour; where it        *)
(* depends on the clone's configuration or on the content of the commits   *)
(* (a merge conflict) it is an input of the run.                           *)
(*                                                                         *)
(* PairSpec runs two caches made by separate createCache calls, each on    *)
(* the Map its call made.  NotifSpec and MetricSpec are the notification   *)
(* service and the metrics collector of src/notifications.ts; strings that *)
(* createKey builds are sequences of characters.                           *)
(***************************************************************************)
EXTENDS Integers, Sequences, FiniteSets, TLC

\* ---------------------------------------------------------------- bounds
MaxClock == 2
MaxSkew == 1
MaxTtl == 1
MaxSize == 3
\* commits made by developers, in this clone or pushed to origin
MaxCommits == 2

\* notifications a service is asked for
MaxNotifications == 2

\* calls that write a metric
MaxCalls == 3

\* three keys: a store of two is full with one key left over, a store of
\* three holds them all
Keys == {"a", "b", "c"}
\* the cache never looks into a value: two are enough to tell the value a
\* set wrote from the one it replaced
Values == {1, 2}
\* `undefined`: what get returns for a missing key, and what a void
\* operation returns
Absent == 0

VARIABLES
  store,      \* Map<string, CacheEntry>: sequence of [key, value, expiresAt]
  now,        \* the value the latest Date.now() call returned
  options,    \* [ttl, maxSize], fixed by createCache
  lastSetAt,  \* per key: clock value read by the most recent set, or -1
              \* when there is none or a delete or clear came after it
  lastWrite,  \* per key: "none", or the most recent of set / delete / clear
  firstSets,  \* keys in the order of their sets, while onlyFresh
  onlyFresh,  \* every set so far used a never-before-set key, and nothing
              \* but capacity eviction removed an entry
  git,        \* git-env.sh: the branches of the clone and of origin
  heap,       \* the Maps made by createCache calls, in the order made
  caches,     \* the caches createCache returned: [options, cell], cell
              \* being the place in heap of the Map the cache closes over
  notifications,  \* Map<string, Notification> of a notification service
  idCounter,      \* its id counter
  metrics,        \* Map<string, Metric> of a metrics collector
  counted,        \* per name and label set: incrementCounter calls since
                  \* the latest reset
  gauged,         \* the names and label sets setGauge or recordHistogram
                  \* was called with since the latest reset
  writes          \* calls that wrote a metric

cacheVars ==
  <<store, now, options, lastSetAt, lastWrite, firstSets, onlyFresh>>

pairVars == <<heap, caches>>

notifVars == <<notifications, idCounter>>

metricVars == <<metrics, counted, gauged, writes>>

otherVars == <<pairVars, notifVars, metricVars>>

vars == <<cacheVars, git, otherVars>>

\* ------------------------------------------------------- Map primitives
RECURSIVE KeysOf(_)
KeysOf(s) == IF s = <<>> THEN <<>> ELSE <<Head(s).key>> \o KeysOf(Tail(s))

KeySet(s) == {s[i].key : i \in 1..Len(s)}

MapHas(s, key) == \E i \in 1..Len(s) : s[i].key = key

IndexOf(s, key) == CHOOSE i \in 1..Len(s) : s[i].key = key

MapGet(s, key) == s[IndexOf(s, key)]

MapDelete(s, key) == SelectSeq(s, LAMBDA e : e.key # key)

\* defect: a write moves the key to the end of the order
MapSetAppend(s, key, entry) == MapDelete(s, key) \o <<entry>>

MapSet(s, key, entry) ==
  IF MapHas(s, key)
  THEN [s EXCEPT ![IndexOf(s, key)] = entry]
  ELSE Append(s, entry)

\* ------------------------------------------------------ private helpers
\* defect: an entry expires at its expiresAt, not after it
EvictExpiredInclusive(s, t) == SelectSeq(s, LAMBDA e : ~(e.expiresAt <= t))

\* evictExpired, with t the value its Date.now() returned
EvictExpired(s, t) == SelectSeq(s, LAMBDA e : ~(e.expiresAt < t))

\* defect: evicts only above maxSize
EvictOldestStrict(o, s) ==
  IF Len(s) > o.maxSize /\ s # <<>>
  THEN MapDelete(s, Head(s).key)
  ELSE s

\* defect: a maxSize of 0 or less means no limit
EvictOldestPositive(o, s) ==
  IF o.maxSize > 0 /\ Len(s) >= o.maxSize /\ s # <<>>
  THEN MapDelete(s, Head(s).key)
  ELSE s

EvictOldest(o, s) ==
  IF Len(s) >= o.maxSize
  THEN IF s # <<>> THEN MapDelete(s, Head(s).key) ELSE s
  ELSE s

\* ---------------------------------------------- the returned operations
\* Each takes the store it runs on and the clock values its Date.now()
\* calls return, and yields the result and the store it leaves.  The
\* definitions marked `defect` are variants the properties must reject.

\* defect: no expiry test after the sweep
GetNoRecheck(s, key, t1, t2) ==
  LET swept == EvictExpired(s, t1)
  IN  IF ~MapHas(swept, key)
      THEN [ret |-> Absent, store |-> swept]
      ELSE [ret |-> MapGet(swept, key).value, store |-> swept]

\* defect: a hit refreshes the key's position (LRU)
GetTouch(s, key, t1, t2) ==
  LET swept == EvictExpired(s, t1)
  IN  IF ~MapHas(swept, key)
      THEN [ret |-> Absent, store |-> swept]
      ELSE IF MapGet(swept, key).expiresAt < t2
           THEN [ret |-> Absent, store |-> MapDelete(swept, key)]
           ELSE [ret |-> MapGet(swept, key).value,
                 store |-> MapSetAppend(swept, key, MapGet(swept, key))]

\* defect: a hit removes the entry
GetTake(s, key, t1, t2) ==
  LET swept == EvictExpired(s, t1)
  IN  IF ~MapHas(swept, key)
      THEN [ret |-> Absent, store |-> swept]
      ELSE IF MapGet(swept, key).expiresAt < t2
           THEN [ret |-> Absent, store |-> MapDelete(swept, key)]
           ELSE [ret |-> MapGet(swept, key).value,
                 store |-> MapDelete(swept, key)]

\* defect: only the queried key is tested for expiry
GetSweepKeyOnly(s, key, t1, t2) ==
  IF ~MapHas(s, key)
  THEN [ret |-> Absent, store |-> s]
  ELSE IF MapGet(s, key).expiresAt < t2
       THEN [ret |-> Absent, store |-> MapDelete(s, key)]
       ELSE [ret |-> MapGet(s, key).value, store |-> s]

CacheGet(s, key, t1, t2) ==
  LET swept == EvictExpired(s, t1)
  IN  IF ~MapHas(swept, key)
      THEN [ret |-> Absent, store |-> swept]
      ELSE IF MapGet(swept, key).expiresAt < t2
           THEN [ret |-> Absent, store |-> MapDelete(swept, key)]
           ELSE [ret |-> MapGet(swept, key).value, store |-> swept]

\* defect: expiresAt is the bare ttl
NewEntryNoClock(o, value, t2) == [value |-> value, expiresAt |-> o.ttl]

\* defect: expiresAt is one tick late
NewEntryLate(o, value, t2) == [value |-> value, expiresAt |-> t2 + o.ttl + 1]

NewEntry(o, value, t2) == [value |-> value, expiresAt |-> t2 + o.ttl]

\* defect: the capacity check counts the entries the sweep removed
CacheSetCountsExpired(o, s, key, value, t1, t2) ==
  LET swept == EvictExpired(s, t1)
      room  == IF Len(s) >= o.maxSize /\ swept # <<>>
                 THEN MapDelete(swept, Head(swept).key)
               ELSE swept
      e     == NewEntry(o, value, t2)
  IN  [store   |-> MapSet(room, key,
                     [key |-> key, value |-> e.value, expiresAt |-> e.expiresAt]),
       expired |-> KeySet(s) \ KeySet(swept)]

\* defect: no eviction when the key is already stored
CacheSetKeepsWhenPresent(o, s, key, value, t1, t2) ==
  LET swept == EvictExpired(s, t1)
      room  == IF MapHas(swept, key) THEN swept ELSE EvictOldest(o, swept)
      e     == NewEntry(o, value, t2)
  IN  [store   |-> MapSet(room, key,
                     [key |-> key, value |-> e.value, expiresAt |-> e.expiresAt]),
       expired |-> KeySet(s) \ KeySet(swept)]

\* defect: replacing an entry keeps the expiresAt it had
CacheSetKeepsExpiry(o, s, key, value, t1, t2) ==
  LET swept == EvictExpired(s, t1)
      room  == EvictOldest(o, swept)
      e     == NewEntry(o, value, t2)
  IN  [store   |-> MapSet(room, key,
                     [key |-> key, value |-> e.value,
                      expiresAt |-> IF MapHas(room, key)
                                      THEN MapGet(room, key).expiresAt
                                    ELSE e.expiresAt]),
       expired |-> KeySet(s) \ KeySet(swept)]

CacheSet(o, s, key, value, t1, t2) ==
  LET swept == EvictExpired(s, t1)
      room  == EvictOldest(o, swept)
      e     == NewEntry(o, value, t2)
  IN  [store   |-> MapSet(room, key,
                     [key |-> key, value |-> e.value, expiresAt |-> e.expiresAt]),
       expired |-> KeySet(s) \ KeySet(swept)]

\* has builds a new cache from the same options and asks that one
FreshStore == <<>>

CacheHas(s, key, t1, t2) ==
  [ret |-> CacheGet(FreshStore, key, t1, t2).ret # Absent, store |-> s]

\* defect: reports a removal whether or not there was one
CacheDeleteAlwaysTrue(s, key) == [ret |-> TRUE, store |-> MapDelete(s, key)]

\* defect: delete sweeps the expired entries as well
CacheDeleteSweeps(s, key) ==
  [ret |-> MapHas(s, key), store |-> MapDelete(EvictExpired(s, now), key)]

CacheDelete(s, key) == [ret |-> MapHas(s, key), store |-> MapDelete(s, key)]

\* defect: removes the expired entries only
CacheClearExpired(s) == EvictExpired(s, now)

CacheClear(s) == <<>>

\* defect: the count is taken before the sweep
CacheSizeRaw(s, t1) == [ret |-> Len(s), store |-> EvictExpired(s, t1)]

CacheSize(s, t1) ==
  LET swept == EvictExpired(s, t1)
  IN  [ret |-> Len(swept), store |-> swept]

\* ============================================================ git-env.sh
\* The script drives one clone of the superproject with its submodules
\* against the remote origin.  A branch is the set of the commits it
\* contains (the empty set is the root commit alone): branch B can be
\* fast-forwarded to branch C exactly when B \subseteq C, and a true merge
\* adds one new commit to the union.  A superproject branch also carries
\* the submodule pointers of its head commit.
Super == "super"

SUBMODULES == <<"config", "specific">>

Submodules == {SUBMODULES[i] : i \in 1..Len(SUBMODULES)}

Repos == {Super} \cup Submodules

\* two neighbouring environment branches
Branches == {"dev", "int"}

\* state of the working tree of a repository when a command starts
TreeKinds == {"clean", "untracked", "unstaged", "staged", "moved"}

Trees ==
  {t \in [Repos -> TreeKinds] : t[Super] # "moved"}

\* diff.ignoreSubmodules / submodule.<name>.ignore of the clone
IgnoreModes == {"none", "untracked", "dirty", "all"}

\* what `git pull` without --ff-only does when both sides have commits of
\* their own: merge, refuse (pull.ff=only, or no reconcile strategy set),
\* or stop in a conflicted merge
PullModes == {"merge", "refuse", "conflict"}

\* Inputs of a run: the working trees, the clone's configuration, how a
\* diverged pull ends, the repositories where a true merge conflicts, and
\* the repositories that already have a branch of the name given to
\* feature-start.
Inputs ==
  [tree : Trees, ignore : IgnoreModes, pull : PullModes,
   conflict : SUBSET Repos, exists : SUBSET Repos]

GitStart ==
  [loc  |-> [r \in Repos |-> [b \in Branches |-> {}]],
   rem  |-> [r \in Repos |-> [b \in Branches |-> {}]],
   ptr  |-> [b \in Branches |-> [sm \in Submodules |-> {}]],
   rptr |-> [b \in Branches |-> [sm \in Submodules |-> {}]],
   n    |-> [r \in Repos |-> 0],
   env  |-> 0]

\* a run of the script: the world so far, whether the script is still
\* running (set -e and die end it), the repositories a failed pull left
\* in an unfinished merge, and the repositories where the run created the
\* feature branch
Start(w) == [w |-> w, ok |-> TRUE, merging |-> {}, created |-> {}]

Fail(st) == [st EXCEPT !.ok = FALSE]

\* does `git diff` in the superproject report the submodule as changed
SubmoduleSeen(kind, ignore) ==
  CASE kind = "clean" -> FALSE
    [] kind = "untracked" -> ignore = "none"
    [] kind \in {"unstaged", "staged"} -> ignore \in {"none", "untracked"}
    [] kind = "moved" -> ignore # "all"

DiffQuiet(in) ==
  /\ in.tree[Super] # "unstaged"
  /\ \A sm \in Submodules : ~SubmoduleSeen(in.tree[sm], in.ignore)

DiffCachedQuiet(in) == in.tree[Super] # "staged"

ensure_clean(st, in) ==
  IF ~st.ok THEN st
  ELSE IF ~DiffQuiet(in) \/ ~DiffCachedQuiet(in) THEN Fail(st)
  ELSE st

\* pointers of a merge commit: a pointer moves forward to the side that
\* contains the other; two pointers that diverged are a conflict
PtrConflict(p, q) ==
  \E sm \in Submodules : ~(p[sm] \subseteq q[sm]) /\ ~(q[sm] \subseteq p[sm])

PtrMerge(p, q) ==
  [sm \in Submodules |-> IF q[sm] \subseteq p[sm] THEN p[sm] ELSE q[sm]]

\* git pull origin b --ff-only, followed by `|| true` unless strict
GitPullFfOnly(st, r, b, strict) ==
  LET l == st.w.loc[r][b]
      m == st.w.rem[r][b]
  IN  IF ~st.ok \/ m \subseteq l THEN st
      ELSE IF l \subseteq m
        THEN [st EXCEPT !.w.loc[r][b] = m,
                        !.w.ptr[b] = IF r = Super THEN st.w.rptr[b] ELSE @]
      ELSE IF strict THEN Fail(st) ELSE st

\* git pull origin b || true
GitPull(st, r, b, in) ==
  LET l == st.w.loc[r][b]
      m == st.w.rem[r][b]
      c == st.w.n[r] + 1
  IN  IF ~st.ok \/ m \subseteq l THEN st
      ELSE IF l \subseteq m
        THEN [st EXCEPT !.w.loc[r][b] = m,
                        !.w.ptr[b] = IF r = Super THEN st.w.rptr[b] ELSE @]
      ELSE IF in.pull = "refuse" THEN st
      ELSE IF \/ in.pull = "conflict"
              \/ r = Super /\ PtrConflict(st.w.ptr[b], st.w.rptr[b])
        THEN [st EXCEPT !.merging = @ \cup {r}]
      ELSE [st EXCEPT !.w.loc[r][b] = l \cup m \cup {c},
                      !.w.n[r] = c,
                      !.w.ptr[b] = IF r = Super
                                     THEN PtrMerge(@, st.w.rptr[b]) ELSE @]

\* a merge that moves the branch to the other one whatever it holds
GitMergeReset(st, r, to, from) ==
  IF ~st.ok THEN st
  ELSE [st EXCEPT !.w.loc[r][to] = st.w.loc[r][from]]

\* git merge --ff-only from, on branch to
GitMergeFfOnly(st, r, to, from) ==
  LET cur == st.w.loc[r][to]
      oth == st.w.loc[r][from]
  IN  IF ~st.ok \/ oth \subseteq cur THEN st
      ELSE IF cur \subseteq oth
        THEN [st EXCEPT !.w.loc[r][to] = oth,
                        !.w.ptr[to] = IF r = Super THEN st.w.ptr[from] ELSE @]
      ELSE Fail(st)

\* git merge upper || die, on branch lower
GitMerge(st, r, lower, upper, in) ==
  LET cur == st.w.loc[r][lower]
      oth == st.w.loc[r][upper]
      c   == st.w.n[r] + 1
  IN  IF ~st.ok THEN st
      ELSE IF r \in st.merging THEN Fail(st)
      ELSE IF oth \subseteq cur THEN st
      ELSE IF cur \subseteq oth
        THEN [st EXCEPT !.w.loc[r][lower] = oth,
                        !.w.ptr[lower] = IF r = Super
                                           THEN st.w.ptr[upper] ELSE @]
      ELSE IF \/ r \in in.conflict
              \/ r = Super /\ PtrConflict(st.w.ptr[lower], st.w.ptr[upper])
        THEN Fail(st)
      ELSE [st EXCEPT !.w.loc[r][lower] = cur \cup oth \cup {c},
                      !.w.n[r] = c,
                      !.w.ptr[lower] = IF r = Super
                                         THEN PtrMerge(@, st.w.ptr[upper])
                                         ELSE @]

\* git push origin b: rejected unless origin's branch can be fast-forwarded
GitPush(st, r, b) ==
  IF ~st.ok THEN st
  ELSE IF st.w.rem[r][b] \subseteq st.w.loc[r][b]
    THEN [st EXCEPT !.w.rem[r][b] = st.w.loc[r][b],
                    !.w.rptr[b] = IF r = Super THEN st.w.ptr[b] ELSE @]
  ELSE Fail(st)

\* git checkout -b feature: fails when the branch exists
GitCheckoutNew(st, r, in) ==
  IF ~st.ok THEN st
  ELSE IF r \in in.exists THEN Fail(st)
  ELSE [st EXCEPT !.created = @ \cup {r}]

\* the pointers `git add config specific` stages once every submodule has
\* branch b checked out
Staged(st, b) == [sm \in Submodules |-> st.w.loc[sm][b]]

\* git commit of the staged pointers on branch b of the superproject
GitCommitPointers(st, b) ==
  LET c == st.w.n[Super] + 1
  IN  IF ~st.ok THEN st
      ELSE [st EXCEPT !.w.loc[Super][b] = @ \cup {c},
                      !.w.n[Super] = c,
                      !.w.ptr[b] = Staged(st, b)]

\* ---------------------------------------------------------------- commands
\* lines 65-74: one turn of the loop over the submodules
FeatureSubmodule(st, sm, base, in) ==
  GitCheckoutNew(GitPullFfOnly(st, sm, base, TRUE), sm, in)

RECURSIVE FeatureSubmodules(_, _, _, _)
FeatureSubmodules(st, i, base, in) ==
  IF i > Len(SUBMODULES) THEN st
  ELSE FeatureSubmodules(FeatureSubmodule(st, SUBMODULES[i], base, in),
                         i + 1, base, in)

cmd_feature_start(w, base, in) ==
  LET s0 == ensure_clean(Start(w), in)
      s1 == GitCheckoutNew(GitPullFfOnly(s0, Super, base, TRUE), Super, in)
  IN  FeatureSubmodules(s1, 1, base, in)

\* lines 103-118: one turn of the loop over the submodules
PromoteSubmodule(st, sm, from, to) ==
  LET pulled == GitPullFfOnly(st, sm, to, FALSE)
      merged == GitMergeFfOnly(pulled, sm, to, from)
  IN  GitPush(merged, sm, to)

RECURSIVE PromoteSubmodules(_, _, _, _)
PromoteSubmodules(st, i, from, to) ==
  IF i > Len(SUBMODULES) THEN st
  ELSE PromoteSubmodules(PromoteSubmodule(st, SUBMODULES[i], from, to),
                         i + 1, from, to)

\* lines 128-135
RECURSIVE AlignFfOnly(_, _, _)
AlignFfOnly(st, i, to) ==
  IF i > Len(SUBMODULES) THEN st
  ELSE AlignFfOnly(GitPullFfOnly(st, SUBMODULES[i], to, FALSE), i + 1, to)

\* lines 120-143: the superproject part of promote
PromoteSuper(st, to) ==
  LET pulled  == GitPullFfOnly(st, Super, to, FALSE)
      aligned == AlignFfOnly(pulled, 1, to)
  IN  IF ~aligned.ok \/ Staged(aligned, to) = aligned.w.ptr[to]
        THEN aligned
      ELSE GitPush(GitCommitPointers(aligned, to), Super, to)

cmd_promote(w, from, to, in) ==
  LET s0 == ensure_clean(Start(w), in)
      s1 == PromoteSubmodules(s0, 1, from, to)
  IN  PromoteSuper(s1, to)

\* lines 177-192: one turn of the loop over the submodules
HotfixSubmodule(st, sm, upper, lower, in) ==
  LET pulled == GitPull(st, sm, lower, in)
      merged == GitMerge(pulled, sm, lower, upper, in)
  IN  GitPush(merged, sm, lower)

RECURSIVE HotfixSubmodules(_, _, _, _, _)
HotfixSubmodules(st, i, upper, lower, in) ==
  IF i > Len(SUBMODULES) THEN st
  ELSE HotfixSubmodules(HotfixSubmodule(st, SUBMODULES[i], upper, lower, in),
                        i + 1, upper, lower, in)

\* lines 203-210
RECURSIVE AlignPull(_, _, _, _)
AlignPull(st, i, lower, in) ==
  IF i > Len(SUBMODULES) THEN st
  ELSE AlignPull(GitPull(st, SUBMODULES[i], lower, in), i + 1, lower, in)

\* lines 194-218: the superproject part of hotfix-sync
HotfixSuper(st, upper, lower, in) ==
  LET pulled    == GitPull(st, Super, lower, in)
      aligned   == AlignPull(pulled, 1, lower, in)
      \* git commit -am ... || true: nothing to commit, or an unfinished
      \* merge, makes it fail without ending the script
      committed == IF \/ ~aligned.ok
                      \/ Super \in aligned.merging
                      \/ Staged(aligned, lower) = aligned.w.ptr[lower]
                     THEN aligned
                   ELSE GitCommitPointers(aligned, lower)
      merged    == GitMerge(committed, Super, lower, upper, in)
  IN  GitPush(merged, Super, lower)

cmd_hotfix_sync(w, upper, lower, in) ==
  LET s0 == ensure_clean(Start(w), in)
      s1 == HotfixSubmodules(s0, 1, upper, lower, in)
  IN  HotfixSuper(s1, upper, lower, in)

\* ------------------------------------------- createCache: the instances
\* the caches a program makes
Instances == {1, 2}

\* the options they are made with
PairOptions == [ttl : {0, 1}, maxSize : {1, 2}]

\* the keys used on them
PairKeys == {"a", "b"}

\* defect: one Map at module level, shared by every cache
NewMapShared(h) == 1

\* new Map(): a Map that no cache made before holds
NewMap(h) == Len(h) + 1

\* createCache(options): the heap and the caches after the call
createCache(h, cs, o) ==
  LET cell == NewMap(h)
  IN  [heap   |-> IF cell \in DOMAIN h THEN h ELSE Append(h, FreshStore),
       caches |-> Append(cs, [options |-> o, cell |-> cell])]

\* a method of cache c has run on the Map c closes over
OnCell(h, c, ret, s2) == [ret |-> ret, heap |-> [h EXCEPT ![c.cell] = s2]]

InstGet(h, c, key, t1, t2) ==
  LET r == CacheGet(h[c.cell], key, t1, t2) IN OnCell(h, c, r.ret, r.store)

InstSet(h, c, key, value, t1, t2) ==
  LET r == CacheSet(c.options, h[c.cell], key, value, t1, t2)
  IN  OnCell(h, c, Absent, r.store)

InstHas(h, c, key, t1, t2) ==
  LET r == CacheHas(h[c.cell], key, t1, t2) IN OnCell(h, c, r.ret, r.store)

InstDelete(h, c, key) ==
  LET r == CacheDelete(h[c.cell], key) IN OnCell(h, c, r.ret, r.store)

InstClear(h, c) == OnCell(h, c, Absent, CacheClear(h[c.cell]))

InstSize(h, c, t1) ==
  LET r == CacheSize(h[c.cell], t1) IN OnCell(h, c, r.ret, r.store)

\* ------------------------------------------------- notification service
\* an optional Date that is not there
NoDate == -1

Channels == {"email", "sms"}

\* a Date a caller asks for
SendAts == {1, 2}

\* Omit<Notification, 'id' | 'status' | 'sentAt'>, its texts left out
Requests == [channel : Channels, scheduledAt : {NoDate, 1}]

\* notif_${Date.now()}_${idCounter++}
generateId(t, counter) == <<"notif", t, counter>>

\* notifications.set(id, n): Map.set
NotifPut(ns, n) ==
  IF \E i \in 1..Len(ns) : ns[i].id = n.id
    THEN [i \in 1..Len(ns) |-> IF ns[i].id = n.id THEN n ELSE ns[i]]
  ELSE Append(ns, n)

\* notifications.get(id)
NotifGet(ns, id) ==
  IF \E i \in 1..Len(ns) : ns[i].id = id
    THEN ns[CHOOSE i \in 1..Len(ns) : ns[i].id = id]
  ELSE [id |-> id, channel |-> "none", scheduledAt |-> NoDate,
        sentAt |-> NoDate, status |-> "undefined"]

\* defect: the sending step throws, the catch block stores 'failed'
NotifSendFails(ns, counter, req, t1, t2) ==
  LET id     == generateId(t1, counter)
      failed == [id |-> id, channel |-> req.channel,
                 scheduledAt |-> req.scheduledAt, sentAt |-> NoDate,
                 status |-> "failed"]
  IN  [threw |-> TRUE, ret |-> failed, store |-> NotifPut(ns, failed),
       counter |-> counter + 1]

\* send: the try block has no step that throws
NotifSend(ns, counter, req, t1, t2) ==
  LET id      == generateId(t1, counter)
      pending == [id |-> id, channel |-> req.channel,
                  scheduledAt |-> req.scheduledAt, sentAt |-> NoDate,
                  status |-> "pending"]
      sent    == [pending EXCEPT !.status = "sent", !.sentAt = t2]
  IN  [threw |-> FALSE, ret |-> sent,
       store |-> NotifPut(NotifPut(ns, pending), sent),
       counter |-> counter + 1]

NotifSchedule(ns, counter, req, sendAt, t1) ==
  LET scheduled == [id |-> generateId(t1, counter), channel |-> req.channel,
                    scheduledAt |-> sendAt, sentAt |-> NoDate,
                    status |-> "pending"]
  IN  [threw |-> FALSE, ret |-> scheduled, store |-> NotifPut(ns, scheduled),
       counter |-> counter + 1]

NotifGetStatus(ns, id) == NotifGet(ns, id)

NotifRetry(ns, id, t1) ==
  LET n == NotifGet(ns, id)
  IN  IF n.status = "undefined" \/ n.status # "failed"
        THEN [threw |-> TRUE, ret |-> n, store |-> ns]
      ELSE LET retried == [n EXCEPT !.status = "sent", !.sentAt = t1]
           IN  [threw |-> FALSE, ret |-> retried,
                store |-> NotifPut(ns, retried)]

\* ---------------------------------------------------- metrics collector
\* a string is the sequence of its characters
Quote == "\""

\* metric names: a plain one, and one that reads like a name with a label
MetricNames ==
  {<<"a">>, <<"a", "{", "x", "=", Quote, "1", Quote, "}">>}

\* label pairs <<key, value>>
LabelX == <<(<<"x">>), (<<"1">>)>>

LabelY == <<(<<"y">>), (<<"1">>)>>

\* Record<string, string>: the pairs in the order Object.entries gives
LabelLists == {<<>>, <<LabelX>>, <<LabelX, LabelY>>, <<LabelY, LabelX>>}

\* the pairs of a label list, whatever their order
LabelSet(labels) == {labels[i] : i \in 1..Len(labels)}

LabelSets == {LabelSet(labels) : labels \in LabelLists}

MetricValues == {7}

\* a.localeCompare(b) < 0 for the label keys used
KeyBefore(a, b) == a = <<"x">> /\ b = <<"y">>

RECURSIVE SortEntries(_)
\* .sort(([a], [b]) => a.localeCompare(b))
SortEntries(entries) ==
  IF entries = <<>> THEN <<>>
  ELSE LET rest == SortEntries(Tail(entries))
           e    == Head(entries)
           lo   == SelectSeq(rest, LAMBDA x : KeyBefore(x[1], e[1]))
           hi   == SelectSeq(rest, LAMBDA x : ~KeyBefore(x[1], e[1]))
       IN  lo \o <<e>> \o hi

\* `${k}="${v}"`
FormatEntry(e) == e[1] \o <<"=", Quote>> \o e[2] \o <<Quote>>

RECURSIVE Join(_)
\* .join(',')
Join(parts) ==
  IF parts = <<>> THEN <<>>
  ELSE IF Len(parts) = 1 THEN parts[1]
  ELSE parts[1] \o <<",">> \o Join(Tail(parts))

createKey(name, labels) ==
  LET sorted   == SortEntries(labels)
      labelStr == Join([i \in 1..Len(sorted) |-> FormatEntry(sorted[i])])
  IN  IF labelStr # <<>> THEN name \o <<"{">> \o labelStr \o <<"}">>
      ELSE name

Metric(key, name, type, value, t, labels) ==
  [key |-> key, name |-> name, type |-> type, value |-> value,
   timestamp |-> t, labels |-> labels]

incrementCounter(ms, name, labels, t) ==
  LET key == createKey(name, labels)
      value == IF MapHas(ms, key) THEN MapGet(ms, key).value + 1 ELSE 1
  IN  MapSet(ms, key, Metric(key, name, "counter", value, t, labels))

setGauge(ms, name, value, labels, t) ==
  LET key == createKey(name, labels)
  IN  MapSet(ms, key, Metric(key, name, "gauge", value, t, labels))

recordHistogram(ms, name, value, labels, t) ==
  LET key == createKey(name, labels)
  IN  MapSet(ms, key, Metric(key, name, "histogram", value, t, labels))

\* Array.from(metrics.values())
getMetrics(ms) == ms

reset(ms) == <<>>

\* ------------------------------------------------------------------ Init
Init ==
  /\ store = <<>>
  /\ now = 0
  /\ options \in [ttl : 0..MaxTtl, maxSize : (-1)..MaxSize]
  /\ lastSetAt = [k \in Keys |-> -1]
  /\ lastWrite = [k \in Keys |-> "none"]
  /\ firstSets = <<>>
  /\ onlyFresh = TRUE
  /\ git = GitStart
  /\ heap = <<>>
  /\ caches = <<>>
  /\ notifications = <<>>
  /\ idCounter = 1
  /\ metrics = <<>>
  /\ counted = [c \in MetricNames \X LabelSets |-> 0]
  /\ gauged = {}
  /\ writes = 0

\* --------------------------------------------------------------- actions
\* a run of first-time sets is over once a key is set again or an entry is
\* removed by anything but capacity eviction
Fresh(ok, seq) ==
  /\ onlyFresh' = (onlyFresh /\ ok)
  /\ firstSets' = IF onlyFresh /\ ok THEN seq ELSE <<>>

\* the values the next one or two Date.now() calls of an operation called
\* now may return: never less than the one before
Clock1 == {t \in now..(now + MaxSkew) : t <= MaxClock}

Clock2 == {t \in Clock1 \X Clock1 : t[1] <= t[2]}

Get(key) ==
  \E t \in Clock2 :
    LET r   == CacheGet(store, key, t[1], t[2])
        hit == MapHas(EvictExpired(store, t[1]), key)
    IN  \* a miss returns before the second Date.now()
        /\ ~hit => t[2] = t[1]
        /\ store' = r.store
        /\ now' = t[2]
        /\ Fresh(KeySet(r.store) = KeySet(store), firstSets)
        /\ UNCHANGED <<options, lastSetAt, lastWrite, git, otherVars>>

Set(key, value) ==
  \E t \in Clock2 :
    LET r == CacheSet(options, store, key, value, t[1], t[2])
    IN  /\ store' = r.store
        /\ now' = t[2]
        /\ lastSetAt' = [lastSetAt EXCEPT ![key] = t[2]]
        /\ lastWrite' = [lastWrite EXCEPT ![key] = "set"]
        /\ Fresh(r.expired = {} /\ lastWrite[key] = "none",
                 Append(firstSets, key))
        /\ UNCHANGED <<options, git, otherVars>>

Has(key) ==
  \E t \in Clock1 :
    LET r == CacheHas(store, key, t, t)
    IN  /\ store' = r.store
        /\ now' = t
        /\ UNCHANGED <<options, lastSetAt, lastWrite, firstSets, onlyFresh,
                       git, otherVars>>

Delete(key) ==
  LET r == CacheDelete(store, key)
  IN  /\ store' = r.store
      /\ lastWrite' = [lastWrite EXCEPT ![key] = "delete"]
      /\ Fresh(FALSE, <<>>)
      /\ lastSetAt' = [lastSetAt EXCEPT ![key] = -1]
      /\ UNCHANGED <<now, options, git, otherVars>>

Clear ==
  /\ store' = CacheClear(store)
  /\ lastWrite' = [k \in Keys |->
                     IF lastWrite[k] = "none" THEN "none" ELSE "clear"]
  /\ Fresh(FALSE, <<>>)
  /\ lastSetAt' = [k \in Keys |-> -1]
  /\ UNCHANGED <<now, options, git, otherVars>>

Size ==
  \E t \in Clock1 :
    LET r == CacheSize(store, t)
    IN  /\ store' = r.store
        /\ now' = t
        /\ Fresh(r.store = store, firstSets)
        /\ UNCHANGED <<options, lastSetAt, lastWrite, git, otherVars>>

Next ==
  \/ \E key \in Keys : Get(key)
  \/ \E key \in Keys, value \in Values : Set(key, value)
  \/ \E key \in Keys : Has(key)
  \/ \E key \in Keys : Delete(key)
  \/ Clear
  \/ Size

Spec == Init /\ [][Next]_vars

\* --------------------------------------------------------- type invariant
TypeOK ==
  /\ now \in 0..MaxClock
  /\ \A i \in 1..Len(store) :
        /\ store[i].key \in Keys
        /\ store[i].value \in Values
        /\ store[i].expiresAt \in 0..(MaxClock + MaxTtl)
  /\ \A i, j \in 1..Len(store) : store[i].key = store[j].key => i = j

\* ------------------------------------------------- git-env.sh: the clone
\* the developer of this clone commits on a branch
DevCommit(r, b) ==
  LET c == git.n[r] + 1
  IN  /\ git.env < MaxCommits
      /\ git' = [git EXCEPT !.loc[r][b] = @ \cup {c}, !.n[r] = c,
                            !.env = @ + 1]
      /\ UNCHANGED <<cacheVars, otherVars>>

\* and pushes it
DevPush(r, b) ==
  LET st == GitPush(Start(git), r, b)
  IN  /\ st.ok
      /\ st.w # git
      /\ git' = st.w
      /\ UNCHANGED <<cacheVars, otherVars>>

\* somebody else pushes a commit to origin
OtherPush(r, b) ==
  LET c == git.n[r] + 1
  IN  /\ git.env < MaxCommits
      /\ git' = [git EXCEPT !.rem[r][b] = @ \cup {c}, !.n[r] = c,
                            !.env = @ + 1]
      /\ UNCHANGED <<cacheVars, otherVars>>

CleanTree == [r \in Repos |-> "clean"]

\* The runs of the script start from a clean tree or from one with an
\* unstaged change in the superproject (which ends the run at once, so
\* hotfix-sync, with the most inputs, is run from a clean tree only), with
\* git's default for submodules and a new name for the feature branch; at
\* most one repository has a conflicting merge.  feature-start and promote
\* never pull without --ff-only and never merge without it.
RunTrees == {CleanTree, [CleanTree EXCEPT ![Super] = "unstaged"]}

AtMostOne == {{}} \cup {{r} : r \in Repos}

RunInputs(trees, pulls, conflicts) ==
  [tree : trees, ignore : {"untracked"}, pull : pulls,
   conflict : conflicts, exists : {{}}]

FeatureStart(base) ==
  \E in \in RunInputs(RunTrees, {"refuse"}, {{}}) :
    /\ git' = cmd_feature_start(git, base, in).w
    /\ UNCHANGED <<cacheVars, otherVars>>

Promote(from, to) ==
  \E in \in RunInputs(RunTrees, {"refuse"}, {{}}) :
    /\ git' = cmd_promote(git, from, to, in).w
    /\ UNCHANGED <<cacheVars, otherVars>>

HotfixSync(upper, lower) ==
  \E in \in RunInputs({CleanTree}, PullModes, AtMostOne) :
    /\ git' = cmd_hotfix_sync(git, upper, lower, in).w
    /\ UNCHANGED <<cacheVars, otherVars>>

GitInit ==
  /\ git = GitStart
  /\ store = <<>>
  /\ now = 0
  /\ options = [ttl |-> 0, maxSize |-> 0]
  /\ lastSetAt = [k \in Keys |-> -1]
  /\ lastWrite = [k \in Keys |-> "none"]
  /\ firstSets = <<>>
  /\ onlyFresh = TRUE
  /\ heap = <<>>
  /\ caches = <<>>
  /\ notifications = <<>>
  /\ idCounter = 1
  /\ metrics = <<>>
  /\ counted = [c \in MetricNames \X LabelSets |-> 0]
  /\ gauged = {}
  /\ writes = 0

GitNext ==
  \/ \E r \in Repos, b \in Branches : DevCommit(r, b)
  \/ \E r \in Repos, b \in Branches : DevPush(r, b)
  \/ \E r \in Repos, b \in Branches : OtherPush(r, b)
  \/ \E base \in Branches : FeatureStart(base)
  \/ \E from \in Branches : \E to \in Branches \ {from} : Promote(from, to)
  \/ \E upper \in Branches :
        \E lower \in Branches \ {upper} : HotfixSync(upper, lower)

GitSpec == GitInit /\ [][GitNext]_vars

\* --------------------------------------------- two caches in one program
PairRest ==
  <<store, options, lastSetAt, lastWrite, firstSets, onlyFresh, git,
    notifVars, metricVars>>

CreateCache(o) ==
  /\ Len(caches) < Cardinality(Instances)
  /\ LET r == createCache(heap, caches, o)
     IN  heap' = r.heap /\ caches' = r.caches
  /\ UNCHANGED <<now, PairRest>>

PairGet(i, key) ==
  /\ i \in DOMAIN caches
  /\ \E t \in Clock2 :
       /\ heap' = InstGet(heap, caches[i], key, t[1], t[2]).heap
       /\ now' = t[2]
  /\ UNCHANGED <<caches, PairRest>>

PairSet(i, key, value) ==
  /\ i \in DOMAIN caches
  /\ \E t \in Clock2 :
       /\ heap' = InstSet(heap, caches[i], key, value, t[1], t[2]).heap
       /\ now' = t[2]
  /\ UNCHANGED <<caches, PairRest>>

PairHas(i, key) ==
  /\ i \in DOMAIN caches
  /\ \E t \in Clock1 :
       /\ heap' = InstHas(heap, caches[i], key, t, t).heap
       /\ now' = t
  /\ UNCHANGED <<caches, PairRest>>

PairDelete(i, key) ==
  /\ i \in DOMAIN caches
  /\ heap' = InstDelete(heap, caches[i], key).heap
  /\ UNCHANGED <<now, caches, PairRest>>

PairClear(i) ==
  /\ i \in DOMAIN caches
  /\ heap' = InstClear(heap, caches[i]).heap
  /\ UNCHANGED <<now, caches, PairRest>>

PairSize(i) ==
  /\ i \in DOMAIN caches
  /\ \E t \in Clock1 :
       /\ heap' = InstSize(heap, caches[i], t).heap
       /\ now' = t
  /\ UNCHANGED <<caches, PairRest>>

PairInit == GitInit

PairNext ==
  \/ \E o \in PairOptions : CreateCache(o)
  \/ \E i \in Instances, key \in PairKeys : PairGet(i, key)
  \/ \E i \in Instances, key \in PairKeys, value \in Values :
        PairSet(i, key, value)
  \/ \E i \in Instances, key \in PairKeys : PairHas(i, key)
  \/ \E i \in Instances, key \in PairKeys : PairDelete(i, key)
  \/ \E i \in Instances : PairClear(i)
  \/ \E i \in Instances : PairSize(i)

PairSpec == PairInit /\ [][PairNext]_vars

\* ------------------------------------------- notification service: calls
NotifRest ==
  <<store, options, lastSetAt, lastWrite, firstSets, onlyFresh, git,
    pairVars, metricVars>>

\* the ids a caller may ask about: those stored and one that is not
AskedIds == {notifications[i].id : i \in 1..Len(notifications)}
              \cup {generateId(0, 0)}

Send(req) ==
  /\ idCounter <= MaxNotifications
  /\ \E t \in Clock2 :
       LET r == NotifSend(notifications, idCounter, req, t[1], t[2])
       IN  /\ notifications' = r.store
           /\ idCounter' = r.counter
           /\ now' = t[2]
  /\ UNCHANGED NotifRest

Schedule(req, sendAt) ==
  /\ idCounter <= MaxNotifications
  /\ \E t \in Clock1 :
       LET r == NotifSchedule(notifications, idCounter, req, sendAt, t)
       IN  /\ notifications' = r.store
           /\ idCounter' = r.counter
           /\ now' = t
  /\ UNCHANGED NotifRest

GetStatus(id) ==
  /\ NotifGetStatus(notifications, id).id = id
  /\ UNCHANGED <<now, notifVars, NotifRest>>

\* new Date() is read only past the two throws
Retry(id) ==
  /\ \E t \in Clock1 :
       LET r == NotifRetry(notifications, id, t)
       IN  /\ notifications' = r.store
           /\ now' = IF r.threw THEN now ELSE t
  /\ UNCHANGED <<idCounter, NotifRest>>

NotifInit == GitInit

NotifNext ==
  \/ \E req \in Requests : Send(req)
  \/ \E req \in Requests, sendAt \in SendAts : Schedule(req, sendAt)
  \/ \E id \in AskedIds : GetStatus(id)
  \/ \E id \in AskedIds : Retry(id)

NotifSpec == NotifInit /\ [][NotifNext]_vars

\* --------------------------------------------- metrics collector: calls
MetricRest ==
  <<store, options, lastSetAt, lastWrite, firstSets, onlyFresh, git,
    pairVars, notifVars>>

IncrementCounter(name, labels) ==
  /\ writes < MaxCalls
  /\ \E t \in Clock1 :
       /\ metrics' = incrementCounter(metrics, name, labels, t)
       /\ now' = t
  /\ counted' = [counted EXCEPT ![<<name, LabelSet(labels)>>] = @ + 1]
  /\ writes' = writes + 1
  /\ UNCHANGED <<gauged, MetricRest>>

SetGauge(name, value, labels) ==
  /\ writes < MaxCalls
  /\ \E t \in Clock1 :
       /\ metrics' = setGauge(metrics, name, value, labels, t)
       /\ now' = t
  /\ gauged' = gauged \cup {<<name, LabelSet(labels)>>}
  /\ writes' = writes + 1
  /\ UNCHANGED <<counted, MetricRest>>

RecordHistogram(name, value, labels) ==
  /\ writes < MaxCalls
  /\ \E t \in Clock1 :
       /\ metrics' = recordHistogram(metrics, name, value, labels, t)
       /\ now' = t
  /\ gauged' = gauged \cup {<<name, LabelSet(labels)>>}
  /\ writes' = writes + 1
  /\ UNCHANGED <<counted, MetricRest>>

GetMetrics ==
  /\ getMetrics(metrics) = metrics
  /\ UNCHANGED <<now, metricVars, MetricRest>>

Reset ==
  /\ metrics' = reset(metrics)
  /\ counted' = [c \in MetricNames \X LabelSets |-> 0]
  /\ gauged' = {}
  /\ UNCHANGED <<now, writes, MetricRest>>

MetricInit == GitInit

MetricNext ==
  \/ \E name \in MetricNames, labels \in LabelLists :
        IncrementCounter(name, labels)
  \/ \E name \in MetricNames, value \in MetricValues, labels \in LabelLists :
        SetGauge(name, value, labels)
  \/ \E name \in MetricNames, value \in MetricValues, labels \in LabelLists :
        RecordHistogram(name, value, labels)
  \/ GetMetrics
  \/ Reset

MetricSpec == MetricInit /\ [][MetricNext]_vars

\* ================================================================ claims
\* The operations are functions of the store they run on and of the clock
\* values they read, so what a call made in a state returns, and the store
\* it leaves, is written with the operators the actions use.

Min(x, y) == IF x <= y THEN x ELSE y

Max(x, y) == IF x >= y THEN x ELSE y

Suffix(s, n) == SubSeq(s, Len(s) - n + 1, Len(s))

\* clock values of a call that follows a call whose last read returned t0
After1(t0) == {t \in t0..(t0 + MaxSkew) : t <= MaxClock}

After2(t0) == {t \in After1(t0) \X After1(t0) : t[1] <= t[2]}

\* get(key) called in this state, the clock standing at t
WouldGet(key, t) == CacheGet(store, key, t, t).ret

Live(k) == MapHas(store, k) /\ ~(MapGet(store, k).expiresAt < now)

Stale(k) == MapHas(store, k) /\ MapGet(store, k).expiresAt < now

\* C1: has(key) returns true exactly when get(key) on the same instance at
\* the same clock value would return a value.
C1_HasIffGet ==
  \A k \in Keys : \A t \in Clock1 :
    CacheHas(store, k, t, t).ret <=> (CacheGet(store, k, t, t).ret # Absent)

\* C2: with ttl > 0 and any maxSize, a get(key) issued right after
\* set(key, value), at the clock value that set read last, returns value,
\* whatever state the set was called in.
C2_GetAfterSet ==
  options.ttl > 0 =>
    \A k \in Keys : \A v \in Values : \A t \in Clock2 :
      CacheGet(CacheSet(options, store, k, v, t[1], t[2]).store, k, t[2], t[2]).ret = v

\* a set has just replaced another value of a key of a store with other keys
C2_Witness ==
  /\ options.ttl > 0
  /\ \E k \in Keys :
       /\ lastWrite[k] = "set"
       /\ lastSetAt[k] = now
       /\ Len(store) > 1
       /\ WouldGet(k, now) \in Values
       /\ \E v \in Values :
            /\ v # WouldGet(k, now)
            /\ CacheGet(CacheSet(options, store, k, v, now, now).store, k, now, now).ret = v

\* C3 as stated: once the clock reads at least (clock value of the most
\* recent set(key, ...)) + ttl, get(key) returns absent.
C3_AbsentAtTtl ==
  \A k \in Keys : \A t \in Clock2 :
    (lastWrite[k] = "set" /\ t[1] >= lastSetAt[k] + options.ttl) =>
      CacheGet(store, k, t[1], t[2]).ret = Absent

\* C3 amended: once the clock read by get is strictly greater than (clock
\* value of the most recent set(key, ...)) + ttl, get(key) returns absent;
\* when a delete or clear followed that set, at any clock value.
C3_AbsentPastTtl ==
  \A k \in Keys : \A t \in Clock2 :
    (/\ lastWrite[k] # "none"
     /\ lastWrite[k] = "set" => t[2] > lastSetAt[k] + options.ttl) =>
      CacheGet(store, k, t[1], t[2]).ret = Absent

\* an entry not swept, deleted or evicted since its set, and the clock one
\* past its expiresAt
C3_Witness ==
  \E k \in Keys :
    /\ lastWrite[k] = "set"
    /\ MapHas(store, k)
    /\ now = lastSetAt[k] + options.ttl + 1
    /\ WouldGet(k, now) = Absent
    /\ WouldGet(k, now - 1) \in Values

\* C4: for maxSize > 0 the store holds at most maxSize entries right after
\* any set returns, and size() called then returns at most maxSize.
C4_SizeWithinMax ==
  options.maxSize > 0 =>
    /\ Len(store) <= options.maxSize
    /\ \A k \in Keys : \A v \in Values : \A t \in Clock2 :
         LET after == CacheSet(options, store, k, v, t[1], t[2]).store
         IN  /\ Len(after) <= options.maxSize
             /\ \A u \in After1(t[2]) :
                  CacheSize(after, u).ret <= options.maxSize

\* a full store, and a key that a set evicted before its entry expired
C4_Witness ==
  /\ options.maxSize > 0
  /\ Len(store) = options.maxSize
  /\ \A i \in 1..Len(store) : Live(store[i].key)
  /\ \E k \in Keys :
       /\ lastWrite[k] = "set"
       /\ ~MapHas(store, k)
       /\ lastSetAt[k] + options.ttl >= now

\* C5: eviction is FIFO by insertion.  After a run of sets of distinct,
\* never-before-set keys with no expiry (get, has and size calls in
\* between, in any number), the store holds exactly the keys set last, as
\* many as fit, in the order they were set, and every key set earlier is
\* absent: with maxSize = 2, set(a), set(b), set(c) leaves b, c.
C5_FifoEviction ==
  onlyFresh =>
    LET kept == Min(Len(firstSets), Max(options.maxSize, 1))
    IN  /\ KeysOf(store) = Suffix(firstSets, kept)
        /\ \A i \in 1..(Len(firstSets) - kept) :
             WouldGet(firstSets[i], now) = Absent

C5_Witness ==
  /\ onlyFresh
  /\ options.maxSize = 2
  /\ Len(firstSets) = 3
  /\ KeysOf(store) = <<firstSets[2], firstSets[3]>>
  /\ WouldGet(firstSets[1], now) = Absent
  /\ WouldGet(firstSets[2], now) \in Values
  /\ WouldGet(firstSets[3], now) \in Values

\* C6: delete(key) returns true exactly when the store held an entry for
\* key before the call, expired or not; afterwards the store holds none,
\* and get(key) returns absent until the next set(key, ...).
C6_Delete ==
  \A k \in Keys :
    /\ CacheDelete(store, k).ret = (k \in KeySet(store))
    /\ k \notin KeySet(CacheDelete(store, k).store)
    /\ \A t \in Clock2 :
         CacheGet(CacheDelete(store, k).store, k, t[1], t[2]).ret = Absent
    /\ lastWrite[k] = "delete" =>
         /\ k \notin KeySet(store)
         /\ \A t \in Clock2 : CacheGet(store, k, t[1], t[2]).ret = Absent

\* one key deleted and not set again, another expired and not yet swept
C6_Witness ==
  \E k, j \in Keys :
    /\ lastWrite[k] = "delete"
    /\ Stale(j)
    /\ CacheDelete(store, j).ret
    /\ ~CacheDelete(store, k).ret

\* C7: after clear() and until a later set, size() returns 0, and get(key)
\* and has(key) report absence for every key that was ever inserted.
ClearedNoSetSince ==
  /\ \E k \in Keys : lastWrite[k] = "clear"
  /\ \A k \in Keys : lastWrite[k] # "set"

C7_Clear ==
  /\ LET after == CacheClear(store)
     IN  \A t \in Clock2 :
           /\ CacheSize(after, t[1]).ret = 0
           /\ \A k \in Keys :
                /\ CacheGet(after, k, t[1], t[2]).ret = Absent
                /\ ~CacheHas(after, k, t[1], t[1]).ret
  /\ ClearedNoSetSince =>
       \A t \in Clock1 : CacheSize(store, t).ret = 0
  /\ \A k \in Keys : lastWrite[k] = "clear" =>
       \A t \in Clock2 :
         /\ CacheGet(store, k, t[1], t[2]).ret = Absent
         /\ ~CacheHas(store, k, t[1], t[1]).ret

C7_Witness ==
  /\ ClearedNoSetSince
  /\ Cardinality({k \in Keys : lastWrite[k] = "clear"}) >= 2
  /\ \E k \in Keys : lastWrite[k] = "delete"

\* C8: no expired entry is reported as present.  When get(key) returns a
\* value, the stored entry's expiresAt is not strictly before the clock
\* value get read last, also when the clock advanced after get's sweep.
C8_NoExpiredReturned ==
  \A k \in Keys : \A t \in Clock2 :
    LET r == CacheGet(store, k, t[1], t[2])
    IN  r.ret # Absent =>
          /\ MapHas(r.store, k)
          /\ MapGet(r.store, k).value = r.ret
          /\ ~(MapGet(r.store, k).expiresAt < t[2])

\* an entry that the sweep of a get called now keeps and that is expired
\* one tick later
C8_Witness ==
  \E k \in Keys :
    /\ MapHas(store, k)
    /\ MapGet(store, k).expiresAt = now
    /\ now < MaxClock
    /\ CacheGet(store, k, now, now + 1).ret = Absent
    /\ CacheGet(store, k, now, now).ret \in Values

\* Two get(key) calls in immediate succession, the first reading the clock
\* values t, the second u: the clock does not cross the expiresAt of the
\* entry of key between them.
NotCrossed(s, k, u) == MapHas(s, k) => ~(MapGet(s, k).expiresAt < u[2])

\* C9 as stated: the two calls return the same result and the second one
\* leaves the store unchanged.
C9_GetTwiceStoreUnchanged ==
  \A k \in Keys : \A t \in Clock2 :
    LET first == CacheGet(store, k, t[1], t[2])
    IN  \A u \in After2(t[2]) :
          LET second == CacheGet(first.store, k, u[1], u[2])
          IN  NotCrossed(first.store, k, u) =>
                /\ second.ret = first.ret
                /\ second.store = first.store

\* C9 amended: the two calls return the same result; the second one leaves
\* the entry of key unchanged, removes nothing but entries of other keys
\* whose expiresAt is before the clock value its sweep read, and so leaves
\* the store unchanged when there is no such entry.
C9_GetTwice ==
  \A k \in Keys : \A t \in Clock2 :
    LET first == CacheGet(store, k, t[1], t[2])
    IN  \A u \in After2(t[2]) :
          LET second == CacheGet(first.store, k, u[1], u[2])
          IN  NotCrossed(first.store, k, u) =>
                /\ second.ret = first.ret
                /\ second.store =
                     SelectSeq(first.store,
                       LAMBDA e : e.key = k \/ ~(e.expiresAt < u[1]))
                /\ (\A i \in 1..Len(first.store) :
                      ~(first.store[i].expiresAt < u[1]))
                     => second.store = first.store

\* a store that a get has swept, holding a live entry and an entry of
\* another key that expires one tick from now
C9_Witness ==
  \E k, j \in Keys :
    /\ k # j
    /\ now < MaxClock
    /\ MapHas(store, j)
    /\ MapGet(store, j).expiresAt = now
    /\ MapHas(store, k)
    /\ MapGet(store, k).expiresAt > now
    /\ CacheGet(store, k, now, now).store = store
    /\ CacheGet(store, k, now + 1, now + 1).ret = WouldGet(k, now)
    /\ CacheGet(store, k, now + 1, now + 1).store # store

\* C10: round trip with ttl > 0 and no clock advance past expiry: has(key)
\* right after set(key, value) returns true, has(key) right after the
\* following delete(key) returns false.
C10_RoundTrip ==
  options.ttl > 0 =>
    \A k \in Keys : \A v \in Values : \A t \in Clock2 :
      LET afterSet == CacheSet(options, store, k, v, t[1], t[2]).store
          afterDel == CacheDelete(afterSet, k).store
      IN  \A u \in After1(t[2]) :
            /\ u <= t[2] + options.ttl => CacheHas(afterSet, k, u, u).ret
            /\ ~CacheHas(afterDel, k, u, u).ret

\* ---------------------------------------------------------------- C11
\* what promote from -> to, called now, does
PromoteRuns(from, to) ==
  {cmd_promote(git, from, to, in) :
     in \in RunInputs(RunTrees, {"refuse"}, {{}})}

\* the branch holds, locally and on origin, every commit it held before
Kept(w, r, b) ==
  /\ git.loc[r][b] \subseteq w.loc[r][b]
  /\ git.rem[r][b] \subseteq w.rem[r][b]

\* at the submodule the run fails, nothing is pushed, the local <to> holds
\* no commit that was not on <to> before, locally or on origin (the pull
\* before the merge may have fast-forwarded it to origin's <to>), and the
\* superproject is untouched
StopsAt(run, sm, to) ==
  /\ ~run.ok
  /\ run.w.rem[sm][to] = git.rem[sm][to]
  /\ run.w.loc[sm][to] \subseteq git.loc[sm][to] \cup git.rem[sm][to]
  /\ run.w.loc[Super] = git.loc[Super]
  /\ run.w.rem[Super] = git.rem[Super]

\* a run never creates a commit in a submodule and leaves the local <to>
\* at what it was, at origin's <to>, or at <from>; no commit is removed
\* from any branch, locally or on origin
OnlyFastForward(run, from, to) ==
  /\ \A r \in Repos : \A b \in Branches : Kept(run.w, r, b)
  /\ \A sm \in Submodules :
       /\ run.w.n[sm] = git.n[sm]
       /\ run.w.loc[sm][to] \in
            {git.loc[sm][to], git.rem[sm][to], git.loc[sm][from]}

C12_SuperprojectPromoted ==
  \A from \in Branches : \A to \in Branches \ {from} :
    \A run \in PromoteRuns(from, to) :
      run.ok =>
        /\ run.w.loc[Super][from] \subseteq run.w.loc[Super][to]
        /\ \A sm \in Submodules : run.w.ptr[to][sm] = run.w.loc[sm][to]

\* ---------------------------------------------------------------- C13
\* uncommitted changes: files that are new, modified or staged
Uncommitted == {"untracked", "unstaged", "staged"}

\* the runs of the three commands that start with uncommitted changes in
\* the superproject or in a submodule
DirtyInputs ==
  {in \in [tree : Trees, ignore : IgnoreModes, pull : PullModes,
           conflict : {{}}, exists : {{}}] :
     \E r \in Repos : in.tree[r] \in Uncommitted}

DirtyRuns ==
  UNION {{cmd_feature_start(git, b, in)} \cup
         {cmd_promote(git, b, c, in) : c \in Branches \ {b}} \cup
         {cmd_hotfix_sync(git, b, c, in) : c \in Branches \ {b}} :
           b \in Branches, in \in DirtyInputs}

\* C13: with uncommitted changes in the superproject or in a submodule,
\* every command fails before it checks out, merges, commits or pushes
\* anything: the run ends in failure, no branch of any repository has
\* changed and no feature branch was created.
C13_FailsWhenDirty ==
  \A run \in DirtyRuns : ~run.ok /\ run.w = git /\ run.created = {}

\* ---------------------------------------------------------------- C14
\* the runs of hotfix-sync upper -> lower from a clean tree
HotfixRuns(upper, lower) ==
  {cmd_hotfix_sync(git, upper, lower, in) :
     in \in RunInputs({CleanTree}, PullModes, AtMostOne)}

\* the world after the developer has committed once more on the branch in
\* each of the repositories given
Committed(w, repos, b) ==
  [w EXCEPT !.loc = [r \in Repos |->
                       IF r \in repos
                         THEN [w.loc[r] EXCEPT ![b] = @ \cup {w.n[r] + 1}]
                       ELSE w.loc[r]],
            !.n = [r \in Repos |-> IF r \in repos THEN @[r] + 1 ELSE @[r]]]

\* C14: once hotfix-sync <upper> <lower> has completed successfully, <lower>
\* contains every commit of <upper> in every repository, and a promote
\* <lower> <upper> that follows, with or without further commits on <lower>
\* in between, fast-forwards <upper> in every submodule and succeeds.
C14_PromoteAfterHotfixSync ==
  \A upper \in Branches : \A lower \in Branches \ {upper} :
    \A sync \in HotfixRuns(upper, lower) :
      sync.ok =>
        /\ \A r \in Repos : sync.w.loc[r][upper] \subseteq sync.w.loc[r][lower]
        /\ \A repos \in SUBSET Repos :
             PromoteSubmodules(Start(Committed(sync.w, repos, lower)),
                               1, lower, upper).ok

\* ---------------------------------------------------------------- C15
\* C15 as stated: after set on a key that is present, the key is the most
\* recently inserted entry, the last in the eviction order.
C15_ResetMovesToEnd ==
  \A k \in KeySet(store) : \A v \in Values : \A t \in Clock2 :
    LET s2 == CacheSet(options, store, k, v, t[1], t[2]).store
    IN  KeysOf(s2)[Len(s2)] = k

\* the set removes the key's entry before it writes: the entry is expired
\* at the sweep, or it is the oldest of a store at capacity
Removed(k, t1) ==
  LET swept == EvictExpired(store, t1)
  IN  \/ ~MapHas(swept, k)
      \/ Len(swept) >= options.maxSize /\ Head(swept).key = k

\* C15, amended: set on a key that is present keeps the key's position in
\* the eviction order (every other key that stays is before it exactly
\* when it was before it); the key becomes the most recently inserted
\* entry only when the set itself removed its entry before writing.
C15_ResetKeepsPosition ==
  \A k \in KeySet(store) : \A v \in Values : \A t \in Clock2 :
    LET s2 == CacheSet(options, store, k, v, t[1], t[2]).store
    IN  /\ MapHas(s2, k)
        /\ Removed(k, t[1]) => KeysOf(s2)[Len(s2)] = k
        /\ ~Removed(k, t[1]) =>
             \A j \in KeySet(s2) \ {k} :
               (IndexOf(store, j) < IndexOf(store, k))
                 <=> (IndexOf(s2, j) < IndexOf(s2, k))

\* C15 witness: a set on the oldest of two live keys of a store below
\* capacity leaves it the oldest
C15_Witness ==
  \E k \in KeySet(store) : \E v \in Values : \E t \in Clock2 :
    LET s2 == CacheSet(options, store, k, v, t[1], t[2]).store
    IN  /\ ~Removed(k, t[1])
        /\ Len(s2) >= 2
        /\ Head(s2).key = k
        /\ Head(s2).value = v

\* ---------------------------------------------------------------- C16
\* the keys of the entries a set removes although they are not expired at
\* its sweep
RemovedLive(k, v, t) ==
  KeySet(EvictExpired(store, t[1]))
    \ KeySet(CacheSet(options, store, k, v, t[1], t[2]).store)

\* C16: a set removes at most one entry that is not expired, and none
\* when the store is below maxSize after the sweep, however many entries
\* the store held before the sweep.
C16_AtMostOneEviction ==
  \A k \in Keys : \A v \in Values : \A t \in Clock2 :
    /\ Cardinality(RemovedLive(k, v, t)) <= 1
    /\ Len(EvictExpired(store, t[1])) < options.maxSize =>
         RemovedLive(k, v, t) = {}

\* C16 witness: a store at capacity with an expired and a live entry; the
\* sweep of a set brings it below capacity and the live entry stays
C16_Witness ==
  \E k \in Keys : \E v \in Values : \E t \in Clock2 :
    LET swept == EvictExpired(store, t[1])
    IN  /\ Len(store) >= options.maxSize
        /\ Len(swept) < options.maxSize
        /\ swept # <<>>
        /\ ~MapHas(store, k)
        /\ RemovedLive(k, v, t) = {}

\* ---------------------------------------------------------------- C17
\* C17: whenever the store is at or above maxSize after the sweep, set
\* removes the oldest entry, also when the key is already stored: the
\* oldest key is gone unless it is the key written, and a set on a stored
\* key other than the oldest of a full store leaves maxSize - 1 entries.
C17_EvictsThoughPresent ==
  \A k \in Keys : \A v \in Values : \A t \in Clock2 :
    LET swept == EvictExpired(store, t[1])
        s2    == CacheSet(options, store, k, v, t[1], t[2]).store
    IN  (swept # <<>> /\ Len(swept) >= options.maxSize) =>
          /\ Head(swept).key # k => ~MapHas(s2, Head(swept).key)
          /\ (/\ MapHas(swept, k)
              /\ Head(swept).key # k
              /\ Len(swept) = options.maxSize)
             => Len(s2) = options.maxSize - 1

\* C17 witness: a full store of at least two live entries and a set on a
\* stored key that is not the oldest
C17_Witness ==
  \E k \in Keys : \E v \in Values : \E t \in Clock2 :
    LET swept == EvictExpired(store, t[1])
        s2    == CacheSet(options, store, k, v, t[1], t[2]).store
    IN  /\ Len(swept) = options.maxSize
        /\ Len(swept) >= 2
        /\ MapHas(swept, k)
        /\ Head(swept).key # k
        /\ Len(s2) = options.maxSize - 1

\* ---------------------------------------------------------------- C18
\* C18: with maxSize <= 0 the store never holds more than one entry, the
\* entry it holds was written by a set that no delete or clear followed,
\* and a set leaves nothing but the entry it writes.
C18_NoRoom ==
  options.maxSize <= 0 =>
    /\ Len(store) <= 1
    /\ \A i \in 1..Len(store) :
         /\ lastWrite[store[i].key] = "set"
         /\ store[i].expiresAt = lastSetAt[store[i].key] + options.ttl
    /\ \A k \in Keys : \A v \in Values : \A t \in Clock2 :
         CacheSet(options, store, k, v, t[1], t[2]).store =
           <<[key |-> k, value |-> v, expiresAt |-> t[2] + options.ttl]>>

\* C18 witness: maxSize <= 0, the store holds a live entry, and a set on
\* another key removes it
C18_Witness ==
  /\ options.maxSize <= 0
  /\ \E k \in Keys : \E v \in Values : \E t \in Clock2 :
       /\ EvictExpired(store, t[1]) # <<>>
       /\ ~MapHas(store, k)
       /\ Len(CacheSet(options, store, k, v, t[1], t[2]).store) = 1

\* ---------------------------------------------------------------- C19
\* C19: with ttl = 0, a get whose clock reads return the value the set
\* read returns the value written; once the clock is past that value and
\* no later write to the key has happened, get and has find nothing and
\* size does not count the entry.
C19_TtlZero ==
  options.ttl = 0 =>
    /\ \A k \in Keys : \A v \in Values : \A t \in Clock2 :
         CacheGet(CacheSet(options, store, k, v, t[1], t[2]).store,
                  k, t[2], t[2]).ret = v
    /\ \A k \in Keys : \A t \in Clock2 :
         (lastWrite[k] = "set" /\ t[1] > lastSetAt[k]) =>
           /\ CacheGet(store, k, t[1], t[2]).ret = Absent
           /\ ~CacheHas(store, k, t[1], t[2]).ret
           /\ ~MapHas(CacheSize(store, t[1]).store, k)
           /\ CacheSize(store, t[1]).ret =
                Cardinality({j \in KeySet(store) \ {k} :
                               ~(MapGet(store, j).expiresAt < t[1])})

\* C19 witness: ttl = 0 and the store still holds the entry of a set
\* while the clock is past the value the set read
C19_Witness ==
  /\ options.ttl = 0
  /\ \E k \in KeySet(store) :
       /\ lastWrite[k] = "set"
       /\ now > lastSetAt[k]

\* ---------------------------------------------------------------- C20
\* the entries of the store that are not expired at clock value t1, in
\* their order
Unexpired(t1) == SelectSeq(store, LAMBDA e : e.expiresAt >= t1)

\* C20 as stated: the store a get leaves holds exactly the entries that
\* were not expired at the clock value the sweep read, unchanged.
C20_GetLeavesUnexpired ==
  \A k \in Keys : \A t \in Clock2 :
    CacheGet(store, k, t[1], t[2]).store = Unexpired(t[1])

\* C20, amended: the store a get leaves holds no entry that was expired at
\* the clock value the sweep read, and holds every other entry unchanged
\* and in its order, except the entry of the queried key when that is
\* expired at the clock value get reads after the lookup.
C20_GetSweepsAll ==
  \A k \in Keys : \A t \in Clock2 :
    LET after == CacheGet(store, k, t[1], t[2]).store
    IN  /\ \A i \in 1..Len(after) : after[i].expiresAt >= t[1]
        /\ after = SelectSeq(Unexpired(t[1]),
                      LAMBDA e : ~(e.key = k /\ e.expiresAt < t[2]))

\* C20 witness: a get that hits while another key's entry is expired
C20_Witness ==
  \E k \in Keys : \E t \in Clock2 :
    LET r == CacheGet(store, k, t[1], t[2])
    IN  /\ r.ret # Absent
        /\ Len(r.store) < Len(store)

\* ---------------------------------------------------------------- C21
\* C21: size returns the number of stored entries whose expiresAt is not
\* strictly before the clock value it reads, and the store it leaves holds
\* exactly those entries, unchanged and in their order.
C21_SizeIsLiveCount ==
  \A t \in Clock1 :
    LET r == CacheSize(store, t)
    IN  /\ r.ret = Cardinality({i \in 1..Len(store) :
                                  ~(store[i].expiresAt < t)})
        /\ r.store = SelectSeq(store, LAMBDA e : ~(e.expiresAt < t))

\* C21 witness: the store holds an expired and a live entry, and size
\* counts the live one only
C21_Witness ==
  \E t \in Clock1 :
    LET r == CacheSize(store, t)
    IN  r.ret >= 1 /\ r.ret < Len(store)

\* ---------------------------------------------------------------- C22
\* every entry of the store s2 is an entry of the store, as it was
EntriesKept(s2) ==
  \A i \in 1..Len(s2) : \E j \in 1..Len(store) : s2[i] = store[j]

\* the entries of the store that are missing from s2
EntriesRemoved(s2) ==
  {store[j] : j \in {n \in 1..Len(store) : ~MapHas(s2, store[n].key)}}

\* C22: get, has, size, delete and clear add no key and change no entry
\* that stays; get and size remove only entries that are expired at a
\* clock value the call reads; delete(key) removes the entry of key and
\* nothing else, expired or not.
C22_OnlySetWrites ==
  /\ \A k \in Keys : \A t \in Clock2 :
       LET g == CacheGet(store, k, t[1], t[2]).store
           h == CacheHas(store, k, t[1], t[2]).store
       IN  /\ EntriesKept(g)
           /\ \A e \in EntriesRemoved(g) : e.expiresAt < t[2]
           /\ EntriesKept(h)
  /\ \A t \in Clock1 :
       LET z == CacheSize(store, t).store
       IN  /\ EntriesKept(z)
           /\ \A e \in EntriesRemoved(z) : e.expiresAt < t
  /\ \A k \in Keys :
       LET d == CacheDelete(store, k).store
       IN  /\ EntriesKept(d)
           /\ \A e \in EntriesRemoved(d) : e.key = k
  /\ EntriesKept(CacheClear(store))

\* C22 witness: the store holds an entry that is expired and the entry of
\* another key; delete of that key leaves the expired entry, get of it
\* removes the expired entry
C22_Witness ==
  \E k \in KeySet(store) : \E j \in KeySet(store) \ {k} :
    /\ MapGet(store, j).expiresAt < now
    /\ MapHas(CacheDelete(store, k).store, j)
    /\ ~MapHas(CacheGet(store, k, now, now).store, j)

\* ---------------------------------------------------------------- C23
\* C23: every set, of a new key or of a stored one, stores expiresAt = the
\* clock value it reads for the write + ttl; every stored entry carries
\* the expiresAt of the most recent set of its key, and until the clock is
\* past it get returns the entry's value.
C23_ExpiresAtFromLatestSet ==
  /\ \A k \in Keys : \A v \in Values : \A t \in Clock2 :
       MapGet(CacheSet(options, store, k, v, t[1], t[2]).store, k) =
         [key |-> k, value |-> v, expiresAt |-> t[2] + options.ttl]
  /\ \A i \in 1..Len(store) :
       /\ lastWrite[store[i].key] = "set"
       /\ store[i].expiresAt = lastSetAt[store[i].key] + options.ttl
       /\ \A t \in Clock2 :
            t[2] <= lastSetAt[store[i].key] + options.ttl =>
              CacheGet(store, store[i].key, t[1], t[2]).ret = store[i].value

\* C23 witness: a set of a live key that stays in its place and gets a
\* later expiresAt than it had
C23_Witness ==
  \E k \in KeySet(store) : \E v \in Values : \E t \in Clock2 :
    LET s2 == CacheSet(options, store, k, v, t[1], t[2]).store
    IN  /\ ~(MapGet(store, k).expiresAt < t[1])
        /\ Len(s2) = Len(store)
        /\ MapGet(s2, k).expiresAt > MapGet(store, k).expiresAt

\* ---------------------------------------------------------------- C24
\* the heaps that the calls that can be made on cache c in this state leave
Calls(h, c) ==
  UNION {
    {InstGet(h, c, k, t[1], t[2]).heap : k \in PairKeys, t \in Clock2},
    UNION {{InstSet(h, c, k, v, t[1], t[2]).heap :
              k \in PairKeys, t \in Clock2} : v \in Values},
    {InstHas(h, c, k, t, t).heap : k \in PairKeys, t \in Clock1},
    {InstDelete(h, c, k).heap : k \in PairKeys},
    {InstClear(h, c).heap},
    {InstSize(h, c, t).heap : t \in Clock1} }

\* what get, has and size of cache c return on heap h
Answers(h, c) ==
  [t \in Clock1 |->
     <<[k \in PairKeys |-> InstGet(h, c, k, t, t).ret],
       [k \in PairKeys |-> InstHas(h, c, k, t, t).ret],
       InstSize(h, c, t).ret>>]

\* C24: two caches made by separate createCache calls, with equal or with
\* different options, are independent: no call on one of them (has
\* included) and no later createCache call changes the entries of the
\* other or what get, has and size of the other return.
C24_Independent ==
  \A j \in DOMAIN caches :
    /\ \A o \in PairOptions :
         createCache(heap, caches, o).heap[caches[j].cell]
           = heap[caches[j].cell]
    /\ \A i \in DOMAIN caches \ {j} :
         \A h2 \in Calls(heap, caches[i]) :
           /\ h2[caches[j].cell] = heap[caches[j].cell]
           /\ Answers(h2, caches[j]) = Answers(heap, caches[j])

\* C24 witness: two caches with different options, the first holds a live
\* entry of a key the second has no entry of; a set and a has of that key
\* on the second leave the first one's entry in place
C24_Witness ==
  /\ Len(caches) = 2
  /\ caches[1].options # caches[2].options
  /\ \E k \in PairKeys :
       /\ InstGet(heap, caches[1], k, now, now).ret # Absent
       /\ InstGet(heap, caches[2], k, now, now).ret = Absent
       /\ \E v \in Values :
            LET h2 == InstSet(heap, caches[2], k, v, now, now).heap
                h3 == InstHas(h2, caches[2], k, now, now).heap
            IN  /\ h3 # heap
                /\ InstGet(h3, caches[1], k, now, now).ret
                     = InstGet(heap, caches[1], k, now, now).ret

\* ---------------------------------------------------------------- C25
\* every stored notification is in ns2 as it is stored
NotifsKept(ns2) ==
  /\ Len(ns2) >= Len(notifications)
  /\ \A i \in 1..Len(notifications) : ns2[i] = notifications[i]

\* C25: no notification is ever stored with status 'failed': send stores
\* its notification as 'sent', schedule stores its one as 'pending', no
\* call changes a notification that is stored, and every retry throws,
\* for a stored id and for an unknown one, and leaves the store as it is.
C25_NeverFailed ==
  /\ \A i \in 1..Len(notifications) :
       notifications[i].status \in {"pending", "sent"}
  /\ \A id \in AskedIds : \A t \in Clock1 :
       LET r == NotifRetry(notifications, id, t)
       IN  r.threw /\ r.store = notifications
  /\ \A req \in Requests : \A t \in Clock2 :
       LET r == NotifSend(notifications, idCounter, req, t[1], t[2])
       IN  /\ NotifsKept(r.store)
           /\ Len(r.store) = Len(notifications) + 1
           /\ r.store[Len(r.store)].status = "sent"
  /\ \A req \in Requests : \A sendAt \in SendAts : \A t \in Clock1 :
       LET r == NotifSchedule(notifications, idCounter, req, sendAt, t)
       IN  /\ NotifsKept(r.store)
           /\ Len(r.store) = Len(notifications) + 1
           /\ r.store[Len(r.store)].status = "pending"

\* C25 witness: a scheduled notification whose time has come is stored as
\* 'pending' next to one that was sent, and retry of each of them throws
C25_Witness ==
  \E i, j \in 1..Len(notifications) :
    /\ notifications[i].status = "pending"
    /\ notifications[i].scheduledAt < now
    /\ notifications[j].status = "sent"
    /\ NotifRetry(notifications, notifications[i].id, now).threw
    /\ NotifRetry(notifications, notifications[j].id, now).threw

\* ---------------------------------------------------------------- C26
\* the metrics stored for a name and a label set
MetricsOf(name, labelSet) ==
  {i \in 1..Len(metrics) :
     metrics[i].name = name /\ LabelSet(metrics[i].labels) = labelSet}

\* C26: after a reset or the creation, k >= 1 incrementCounter calls with
\* one name and one set of label pairs, in any key order and with calls for
\* other names or label sets in between, leave exactly one metric of that
\* name and label set, and its value is k, as long as setGauge and
\* recordHistogram were not called with that name and those labels.
C26_CounterCountsCalls ==
  \A c \in MetricNames \X LabelSets :
    (counted[c] >= 1 /\ c \notin gauged) =>
      /\ Cardinality(MetricsOf(c[1], c[2])) = 1
      /\ \A i \in MetricsOf(c[1], c[2]) : metrics[i].value = counted[c]

====
